---- MODULE Spec2Model ----
(***************************************************************************)
(* Foodgram backend API: the many-to-many toggle mixin                     *)
(* (backend/api/mixins.py) and the view sets built on it                   *)
(* (backend/api/views.py).                                                 *)
(***************************************************************************)
EXTENDS Integers, Sequences, FiniteSets, TLC

(* ------------------------------ bounds -------------------------------- *)
NumUsers == 2
NumRecipes == 2
MaxReqs == 3
NumProcs == 2
NumIngredients == 3
MaxTime == 1

(* ------------------------- program constants -------------------------- *)
HTTP_201_CREATED == 201
HTTP_204_NO_CONTENT == 204
HTTP_400_BAD_REQUEST == 400
HTTP_401_UNAUTHORIZED == 401
HTTP_404_NOT_FOUND == 404

\* conf.py: relation keys and the method groups of the toggle endpoints
SUBSCRIBE_M2M == "subscribe_M2M"
FAVORITE_M2M == "favorite_M2M"
SHOP_CART_M2M == "shopping_cart_M2M"
ADD_METHODS == {"POST"}
DEL_METHODS == {"DELETE"}
ACTION_METHODS == ADD_METHODS \cup DEL_METHODS

(* ------------------------------ universe ------------------------------ *)
Users == 1..NumUsers
Recipes == 1..NumRecipes
\* request.user of an unauthenticated request (user.is_anonymous)
AnonymousUser == 0
Callers == Users \cup {AnonymousUser}
\* ids a URL can carry: every stored id and one id no table holds
ObjIds == 1..((IF NumUsers > NumRecipes THEN NumUsers ELSE NumRecipes) + 1)
Endpoints == {"subscribe", "favorite", "shopping_cart"}
Procs == 1..NumProcs

VARIABLES
  subscribe,   \* user.subscribe : rows of the user-to-user relation
  favorites,   \* user.favorites : rows of the user-to-recipe relation
  carts,       \* user.carts     : rows of the user-to-recipe relation
  log,         \* the last (two) answered toggle requests (observer)
  last,        \* per (relation, user, object): last successful toggle
  nreq,        \* number of requests received so far
  procs,       \* the requests being handled concurrently, by worker
  request,     \* the request of a read-only view: caller and query parameters
  response,    \* what the view answered
  ingredients, \* the Ingredient table in its natural order
  amounts,     \* the AmountIngredient table: recipe -> ingredient -> amount
  files,       \* MEDIA_ROOT: path -> file
  clock,       \* dt.now()
  jobs,        \* the download requests being handled concurrently
  writers      \* per path: the users whose download opened it (observer)

viewvars == <<request, response, ingredients>>
exportvars == <<amounts, files, clock, jobs, writers>>
togglevars == <<log, last, nreq, procs>>
vars == <<subscribe, favorites, carts, log, last, nreq, procs,
          request, response, ingredients, amounts, files, clock, jobs,
          writers>>

(* ------------------------- relation managers -------------------------- *)
\* A relation of one user is its rows of the join table: object id -> number
\* of rows.
EmptyRows(ids) == [o \in ids |-> 0]

\* relation.filter(id=obj_id).exists()
RelationExists(rows, obj_id) == rows[obj_id] > 0

\* relation.add(obj) if it inserted a row without looking for an existing one
RelationAdd_dup(rows, obj_id) == [rows EXCEPT ![obj_id] = @ + 1]

\* relation.add(obj): an object already related is not inserted again
RelationAdd(rows, obj_id) ==
  IF rows[obj_id] > 0 THEN rows ELSE [rows EXCEPT ![obj_id] = 1]

\* relation.remove(obj) if it emptied the relation (relation.clear())
RelationRemove_clear(rows, obj_id) == [o \in DOMAIN rows |-> 0]

\* relation.remove(obj): deletes every row of the object
RelationRemove(rows, obj_id) == [rows EXCEPT ![obj_id] = 0]

\* the relation key each endpoint passes to add_del_obj
EndpointRelation(endpoint) ==
  CASE endpoint = "subscribe" -> SUBSCRIBE_M2M
    [] endpoint = "favorite" -> FAVORITE_M2M
    [] endpoint = "shopping_cart" -> SHOP_CART_M2M

\* self.queryset of the view set the endpoint belongs to
Queryset(endpoint) == IF endpoint = "subscribe" THEN Users ELSE Recipes

\* _get_relation with the favorites and carts cases exchanged
get_relation_swapped(relation) ==
  CASE relation = SUBSCRIBE_M2M -> "subscribe"
    [] relation = FAVORITE_M2M -> "carts"
    [] relation = SHOP_CART_M2M -> "favorites"

\* AddDelViewMixin._get_relation: the manager of request.user for the key
get_relation(relation) ==
  CASE relation = SUBSCRIBE_M2M -> "subscribe"
    [] relation = FAVORITE_M2M -> "favorites"
    [] relation = SHOP_CART_M2M -> "carts"

\* the rows behind a manager name for one user
ManagerRows(manager, user) ==
  CASE manager = "subscribe" -> subscribe[user]
    [] manager = "favorites" -> favorites[user]
    [] manager = "carts" -> carts[user]

\* the store with the rows of one manager of one user replaced
StoreRows(manager, user, rows) ==
  /\ subscribe' = IF manager = "subscribe"
                    THEN [subscribe EXCEPT ![user] = rows] ELSE subscribe
  /\ favorites' = IF manager = "favorites"
                    THEN [favorites EXCEPT ![user] = rows] ELSE favorites
  /\ carts' = IF manager = "carts"
                THEN [carts EXCEPT ![user] = rows] ELSE carts

Snapshot == [subscribe |-> subscribe, favorites |-> favorites, carts |-> carts]

(* --------------------------- add_del_obj ------------------------------ *)
\* add_del_obj if the addition branch did not test obj_exist
add_del_obj_noguard(user, endpoint, obj_id, method, obj_exist) ==
  IF user = AnonymousUser THEN HTTP_401_UNAUTHORIZED
  ELSE IF obj_id \notin Queryset(endpoint) THEN HTTP_404_NOT_FOUND
  ELSE IF method \in ADD_METHODS THEN HTTP_201_CREATED
  ELSE IF method \in DEL_METHODS /\ obj_exist THEN HTTP_204_NO_CONTENT
  ELSE HTTP_400_BAD_REQUEST

\* add_del_obj if the object lookup came before the is_anonymous test
add_del_obj_lookup_first(user, endpoint, obj_id, method, obj_exist) ==
  IF obj_id \notin Queryset(endpoint) THEN HTTP_404_NOT_FOUND
  ELSE IF user = AnonymousUser THEN HTTP_401_UNAUTHORIZED
  ELSE IF method \in ADD_METHODS /\ ~obj_exist THEN HTTP_201_CREATED
  ELSE IF method \in DEL_METHODS /\ obj_exist THEN HTTP_204_NO_CONTENT
  ELSE HTTP_400_BAD_REQUEST

\* the response status of add_del_obj, given what the membership check saw
add_del_obj(user, endpoint, obj_id, method, obj_exist) ==
  IF user = AnonymousUser THEN HTTP_401_UNAUTHORIZED
  ELSE IF obj_id \notin Queryset(endpoint) THEN HTTP_404_NOT_FOUND
  ELSE IF method \in ADD_METHODS /\ ~obj_exist THEN HTTP_201_CREATED
  ELSE IF method \in DEL_METHODS /\ obj_exist THEN HTTP_204_NO_CONTENT
  ELSE HTTP_400_BAD_REQUEST

\* the rows add_del_obj leaves behind for a response status
add_del_rows(rows, obj_id, status) ==
  IF status = HTTP_201_CREATED THEN RelationAdd(rows, obj_id)
  ELSE IF status = HTTP_204_NO_CONTENT THEN RelationRemove(rows, obj_id)
  ELSE rows

\* obj_exist as add_del_obj reads it (only reached by an authenticated
\* caller on an existing object)
ObjExist(user, endpoint, obj_id) ==
  /\ user # AnonymousUser
  /\ obj_id \in Queryset(endpoint)
  /\ RelationExists(ManagerRows(get_relation(EndpointRelation(endpoint)), user),
                    obj_id)

\* the observed window: the request just answered, preceded by the one
\* answered right before it when that one had the same user, endpoint and id
Observe(window, entry) ==
  IF /\ Len(window) > 0
     /\ window[Len(window)].user = entry.user
     /\ window[Len(window)].endpoint = entry.endpoint
     /\ window[Len(window)].obj_id = entry.obj_id
    THEN <<window[Len(window)], entry>>
    ELSE <<entry>>

\* what a response does to the store (lines 89-96): 201 inserts, 204
\* removes, every other status touches nothing
Mutate(user, endpoint, obj_id, status) ==
  LET manager == get_relation(EndpointRelation(endpoint)) IN
  IF status \in {HTTP_201_CREATED, HTTP_204_NO_CONTENT}
    THEN /\ StoreRows(manager, user,
                      add_del_rows(ManagerRows(manager, user), obj_id, status))
         /\ last' = [last EXCEPT ![manager][user][obj_id] =
                       IF status = HTTP_201_CREATED THEN "add" ELSE "del"]
    ELSE UNCHANGED <<subscribe, favorites, carts, last>>

\* one whole call of add_del_obj through an endpoint, with no other request
\* running meanwhile
Toggle(user, endpoint, obj_id, method) ==
  LET status == add_del_obj(user, endpoint, obj_id, method,
                               ObjExist(user, endpoint, obj_id)) IN
  /\ nreq < MaxReqs
  /\ nreq' = nreq + 1
  /\ Mutate(user, endpoint, obj_id, status)
  /\ log' = Observe(log,
              [user |-> user, endpoint |-> endpoint, obj_id |-> obj_id,
               method |-> method, status |-> status, before |-> Snapshot])
  /\ UNCHANGED <<procs, viewvars, exportvars>>

(* ------------------ add_del_obj of concurrent requests ---------------- *)
IdleProc ==
  [pc |-> "idle", user |-> AnonymousUser, endpoint |-> "subscribe",
   obj_id |-> 1, method |-> "POST", obj_exist |-> FALSE, status |-> 0,
   overlap |-> {}]

\* lines 78-87: authentication, relation and object lookup, membership read;
\* every worker handles one request, workers are taken in order; a request
\* refused here (401, 404) leaves only its status behind; overlap observes
\* the workers whose request on the same user, endpoint and id ran meanwhile
Begin(p, user, endpoint, obj_id, method) ==
  LET early == add_del_obj(user, endpoint, obj_id, method, FALSE)
      running == {q \in Procs \ {p} :
                    /\ procs[q].pc = "checked" /\ procs[q].user = user
                    /\ procs[q].endpoint = endpoint /\ procs[q].obj_id = obj_id}
      mine == [pc |-> "checked", user |-> user, endpoint |-> endpoint,
               obj_id |-> obj_id, method |-> method,
               obj_exist |-> ObjExist(user, endpoint, obj_id), status |-> 0,
               overlap |-> running]
  IN
  /\ procs[p].pc = "idle"
  /\ \A q \in Procs : q < p => procs[q].pc # "idle"
  /\ procs' =
       IF early \in {HTTP_401_UNAUTHORIZED, HTTP_404_NOT_FOUND}
         THEN [procs EXCEPT ![p] = [IdleProc EXCEPT !.pc = "done",
                                                     !.status = early]]
         ELSE [q \in Procs |->
                 IF q = p THEN mine
                 ELSE IF q \in running
                   THEN [procs[q] EXCEPT !.overlap = @ \cup {p}]
                   ELSE procs[q]]
  /\ UNCHANGED <<subscribe, favorites, carts, last, log, nreq, viewvars,
                 exportvars>>

\* lines 89-96: act on the membership read earlier and respond
Act(p) ==
  LET r == procs[p]
      status == add_del_obj(r.user, r.endpoint, r.obj_id, r.method,
                               r.obj_exist)
  IN
  /\ r.pc = "checked"
  /\ Mutate(r.user, r.endpoint, r.obj_id, status)
  /\ procs' = [procs EXCEPT ![p].pc = "done", ![p].status = status]
  /\ UNCHANGED <<log, nreq, viewvars, exportvars>>

NoRequest == [view |-> "none"]
NoResponse == [view |-> "none"]

\* str(user), the name a file is given for a user
UserName(u) == u

\* filename = f'{user}_shopping_list.txt' if it did not depend on the user
FileName_shared(u) == <<"shopping_list.txt">>

\* filename = f'{user}_shopping_list.txt'
FileName(u) == <<UserName(u), "_shopping_list.txt">>

Paths == {FileName(u) : u \in Users}
NoFile == [exists |-> FALSE, content |-> <<>>]
IdleJob ==
  [pc |-> "idle", user |-> AnonymousUser, text |-> <<>>, body |-> <<>>,
   status |-> 0, overlap |-> {}]

\* no recipe ingredients stored, no download requested yet
InitNoExport ==
  /\ amounts = [r \in Recipes |-> <<>>]
  /\ files = [path \in Paths |-> NoFile]
  /\ clock = 0
  /\ jobs = [p \in Procs |-> IdleJob]
  /\ writers = [path \in Paths |-> {}]

\* no toggle request received yet
InitToggles ==
  /\ log = <<>>
  /\ last = [m \in {"subscribe", "favorites", "carts"} |->
              [u \in Users |-> [o \in ObjIds |-> "none"]]]
  /\ nreq = 0
  /\ procs = [p \in Procs |-> IdleProc]

Init ==
  /\ subscribe = [u \in Users |-> EmptyRows(Users)]
  /\ favorites = [u \in Users |-> EmptyRows(Recipes)]
  /\ carts = [u \in Users |-> EmptyRows(Recipes)]
  /\ InitToggles
  /\ request = NoRequest
  /\ response = NoResponse
  /\ ingredients = <<>>
  /\ InitNoExport

Next ==
  \E user \in Callers, endpoint \in Endpoints, obj_id \in ObjIds,
     method \in ACTION_METHODS :
    Toggle(user, endpoint, obj_id, method)

Spec == Init /\ [][Next]_vars

NextConc ==
  \/ \E p \in Procs, user \in Callers, endpoint \in Endpoints,
        obj_id \in ObjIds, method \in ACTION_METHODS :
       Begin(p, user, endpoint, obj_id, method)
  \/ \E p \in Procs : Act(p)

SpecConc == Init /\ [][NextConc]_vars

(* -------------------- RecipeViewSet.get_queryset ---------------------- *)
\* conf.py: the values read as true and as false in the list filters
SYMBOL_TRUE_SEARCH == {"1", "true"}
SYMBOL_FALSE_SEARCH == {"0", "false"}
\* query_params.get of a parameter the URL does not carry
NoParam == "None"

\* the stored recipes: tag slugs and author of each (Recipe.tags,
\* Recipe.author); recipe 1 carries both slugs
TagSlugs == {"a", "b"}
RecipeTags(r) ==
  (IF r % 2 = 1 THEN {"a"} ELSE {}) \cup (IF r <= 2 THEN {"b"} ELSE {})
RecipeAuthor(r) == ((r - 1) % NumUsers) + 1

\* the values the list parameters are drawn from
TagParams == {<<>>, <<"a">>, <<"b", "a">>, <<"c">>}
AuthorParams == {<<>>} \cup {<<u>> : u \in Users}
FlagParams == {NoParam, "1", "false", "yes"}

Range(seq) == {seq[i] : i \in DOMAIN seq}

RECURSIVE Repeat(_, _)
Repeat(x, n) == IF n = 0 THEN <<>> ELSE <<x>> \o Repeat(x, n - 1)

\* queryset.filter(tags__slug__in=tags): the join with the tags gives one
\* row per matching tag of a recipe
RECURSIVE FilterTags(_, _)
FilterTags(queryset, tags) ==
  IF queryset = <<>> THEN <<>>
  ELSE Repeat(Head(queryset),
              Cardinality(RecipeTags(Head(queryset)) \cap Range(tags)))
         \o FilterTags(Tail(queryset), tags)

\* .distinct() without it
Distinct_none(queryset) == queryset

\* .distinct(): each row once, in the order of first appearance
RECURSIVE Distinct(_)
Distinct(queryset) ==
  IF queryset = <<>> THEN <<>>
  ELSE LET init == Distinct(SubSeq(queryset, 1, Len(queryset) - 1))
           x == queryset[Len(queryset)]
       IN IF x \in Range(init) THEN init ELSE Append(init, x)

\* queryset.filter(author=author)
FilterAuthor(queryset, author) ==
  LET Keep(r) == RecipeAuthor(r) = author IN SelectSeq(queryset, Keep)

\* queryset.filter(cart=user.id) / queryset.filter(favorite=user.id)
FilterRelated(queryset, rows) ==
  LET Keep(r) == rows[r] > 0 IN SelectSeq(queryset, Keep)

\* queryset.exclude(cart=user.id) / queryset.exclude(favorite=user.id)
ExcludeRelated(queryset, rows) ==
  LET Keep(r) == ~(rows[r] > 0) IN SelectSeq(queryset, Keep)

\* Recipe.objects.select_related('author'), in the natural order
RecipeQueryset == [r \in 1..NumRecipes |-> r]

\* RecipeViewSet.get_queryset
recipe_get_queryset(req) ==
  LET q1 == IF req.tags # <<>>
              THEN Distinct(FilterTags(RecipeQueryset, req.tags))
              ELSE RecipeQueryset
      q2 == IF req.author # <<>> THEN FilterAuthor(q1, req.author[1]) ELSE q1
  IN
  IF req.user = AnonymousUser THEN q2
  ELSE
    LET q3 == IF req.is_in_shopping_cart \in SYMBOL_TRUE_SEARCH
                THEN FilterRelated(q2, carts[req.user])
              ELSE IF req.is_in_shopping_cart \in SYMBOL_FALSE_SEARCH
                THEN ExcludeRelated(q2, carts[req.user])
              ELSE q2
        q4 == IF req.is_favorited \in SYMBOL_TRUE_SEARCH
                THEN FilterRelated(q3, favorites[req.user]) ELSE q3
        q5 == IF req.is_favorited \in SYMBOL_FALSE_SEARCH
                THEN ExcludeRelated(q4, favorites[req.user]) ELSE q4
    IN q5

\* rows of one relation holding exactly the given objects
RowsOf(ids, members) == [o \in ids |-> IF o \in members THEN 1 ELSE 0]

\* a stored state and a list request: the caller's cart and favorites are
\* any sets of recipes
InitRecipes ==
  /\ InitToggles
  /\ subscribe = [u \in Users |-> EmptyRows(Users)]
  /\ \E user \in Callers, c \in SUBSET Recipes, f \in SUBSET Recipes :
       /\ user = AnonymousUser => c = {} /\ f = {}
       /\ carts = [u \in Users |-> RowsOf(Recipes, IF u = user THEN c ELSE {})]
       /\ favorites = [u \in Users |-> RowsOf(Recipes, IF u = user THEN f ELSE {})]
       /\ \E tags \in TagParams, author \in AuthorParams,
             cart \in FlagParams, fav \in FlagParams :
            request = [view |-> "recipes", user |-> user, tags |-> tags,
                       author |-> author, is_in_shopping_cart |-> cart,
                       is_favorited |-> fav]
  /\ response = NoResponse
  /\ ingredients = <<>>
  /\ InitNoExport

\* GET /recipes/
RecipeList ==
  /\ request.view = "recipes"
  /\ response = NoResponse
  /\ response' = [view |-> "recipes", result |-> recipe_get_queryset(request)]
  /\ UNCHANGED <<subscribe, favorites, carts, togglevars, request, ingredients,
                 exportvars>>

NextRecipes == RecipeList

SpecRecipes == InitRecipes /\ [][NextRecipes]_vars

(* ------------------ IngredientViewSet.get_queryset -------------------- *)

\* strings are sequences of characters, a Cyrillic letter written cyr_x
\* (capital CYR_X); the stored names and the raw values of the name
\* parameter are drawn from these
IngredientNames == {<<"cyr_a">>, <<"cyr_a", "cyr_b">>, <<"cyr_b", "cyr_a">>, <<"f", "cyr_a">>}
NameParams ==
  {<<>>, <<"cyr_a">>, <<"CYR_A">>, <<"cyr_b">>, <<"f">>, <<"F">>, <<"d">>,
   <<"cyr_a", "cyr_b">>, <<"F", "cyr_b">>, <<"%">>, <<"%", "6", "6">>,
   <<"%", "4", "6">>, <<"%", "6", "6", "cyr_a">>}

\* services.incorrect_layout: a key of the Latin layout to the letter the
\* same key types in the Cyrillic layout
incorrect_layout(c) ==
  CASE c = "f" -> "cyr_a"
    [] c = "F" -> "CYR_A"
    [] c = "d" -> "cyr_v"
    [] c = "D" -> "CYR_V"
    [] OTHER -> c

\* str.translate
translate(str) == [i \in DOMAIN str |-> incorrect_layout(str[i])]

\* str.lower, by character
LowerChar(c) ==
  CASE c = "CYR_A" -> "cyr_a"
    [] c = "CYR_V" -> "cyr_v"
    [] c = "F" -> "f"
    [] c = "D" -> "d"
    [] OTHER -> c

lower(str) == [i \in DOMAIN str |-> LowerChar(str[i])]

\* the character of a %XX escape
HexDigits == {"4", "6"}
Unhex(h1, h2) ==
  CASE h1 = "4" /\ h2 = "4" -> "D"
    [] h1 = "4" /\ h2 = "6" -> "F"
    [] h1 = "6" /\ h2 = "4" -> "d"
    [] h1 = "6" /\ h2 = "6" -> "f"

\* urllib.parse.unquote: %XX escapes decoded, anything else kept
RECURSIVE unquote(_)
unquote(str) ==
  IF str = <<>> THEN <<>>
  ELSE IF /\ str[1] = "%" /\ Len(str) >= 3
          /\ str[2] \in HexDigits /\ str[3] \in HexDigits
    THEN <<Unhex(str[2], str[3])>> \o unquote(SubSeq(str, 4, Len(str)))
    ELSE <<str[1]>> \o unquote(Tail(str))

\* name__startswith
StartsWith(name, prefix) ==
  Len(prefix) <= Len(name) /\ SubSeq(name, 1, Len(prefix)) = prefix

\* name__contains
Contains(name, part) ==
  \E k \in 0..(Len(name) - Len(part)) : SubSeq(name, k + 1, k + Len(part)) = part

\* lines 100-104: the name searched for
NormalizeName(name) ==
  lower(IF name[1] = "%" THEN unquote(name) ELSE translate(name))

\* Ingredient.objects.all(): ids in the natural order
IngredientQueryset == [i \in 1..Len(ingredients) |-> i]

\* line 108 without the `if i not in stw_queryset`
ExtendNew_all(stw_queryset, cnt_queryset) == stw_queryset \o cnt_queryset

\* lines 107-109: stw_queryset.extend([i for i in cnt_queryset if i not in
\* stw_queryset])
ExtendNew(stw_queryset, cnt_queryset) ==
  LET New(i) == i \notin Range(stw_queryset)
  IN stw_queryset \o SelectSeq(cnt_queryset, New)

\* IngredientViewSet.get_queryset; a request without the parameter has
\* has_name FALSE (query_params.get gives None)
ingredient_get_queryset(req) ==
  IF ~req.has_name \/ req.name = <<>> THEN IngredientQueryset
  ELSE
    LET n == NormalizeName(req.name)
        Stw(i) == StartsWith(ingredients[i].name, n)
        Cnt(i) == Contains(ingredients[i].name, n)
    IN ExtendNew(SelectSeq(IngredientQueryset, Stw),
                 SelectSeq(IngredientQueryset, Cnt))

InitSearch ==
  /\ InitToggles
  /\ subscribe = [u \in Users |-> EmptyRows(Users)]
  /\ favorites = [u \in Users |-> EmptyRows(Recipes)]
  /\ carts = [u \in Users |-> EmptyRows(Recipes)]
  /\ \E names \in [1..NumIngredients -> IngredientNames] :
       ingredients = [i \in 1..NumIngredients |->
                        [name |-> names[i], measurement_unit |-> "g"]]
  /\ \/ request = [view |-> "ingredients", has_name |-> FALSE, name |-> <<>>]
     \/ \E name \in NameParams :
          request = [view |-> "ingredients", has_name |-> TRUE, name |-> name]
  /\ response = NoResponse
  /\ InitNoExport

\* GET /ingredients/?name=...
IngredientList ==
  /\ request.view = "ingredients"
  /\ response = NoResponse
  /\ response' = [view |-> "ingredients",
                  result |-> ingredient_get_queryset(request)]
  /\ UNCHANGED <<subscribe, favorites, carts, togglevars, request, ingredients,
                 exportvars>>

NextSearch == IngredientList

SpecSearch == InitSearch /\ [][NextSearch]_vars

(* ------------------ RecipeViewSet.download_shopping_cart -------------- *)
\* the ingredients the recipes of the export runs use: the same name with
\* two units, and a second name
ExportIngredients ==
  <<[name |-> <<"cyr_a">>, measurement_unit |-> "g"],
    [name |-> <<"cyr_a">>, measurement_unit |-> "kg"],
    [name |-> <<"cyr_b", "cyr_a">>, measurement_unit |-> "g"]>>
\* the amounts an AmountIngredient row is drawn from (0: no such row)
Amounts == {0, 3, 5}

\* AmountIngredient.objects: the rows in the natural order
AmountRows ==
  LET n == Len(ingredients)
      cell == [k \in 1..(NumRecipes * n) |->
                 [recipe |-> ((k - 1) \div n) + 1,
                  ingredients |-> ((k - 1) % n) + 1,
                  amount |-> amounts[((k - 1) \div n) + 1][((k - 1) % n) + 1]]]
      Stored(row) == row.amount > 0
  IN SelectSeq(cell, Stored)

\* the rows of every recipe, whoever's cart it is in
CartRows_all(user) == AmountRows

\* AmountIngredient.objects.filter(recipe__in=user.carts.values('id'))
CartRows(user) ==
  LET InCart(row) == carts[user][row.recipe] > 0
  IN SelectSeq(AmountRows, InCart)

\* .values(ingredient=..., measure=...).annotate(amount=Sum('amount')):
\* one row per (name, unit), the amounts of the group summed
RECURSIVE Annotate(_, _)
Annotate(rows, groups) ==
  IF rows = <<>> THEN groups
  ELSE
    LET row == Head(rows)
        ing == ingredients[row.ingredients]
        hit == {k \in DOMAIN groups :
                  /\ groups[k].ingredient = ing.name
                  /\ groups[k].measure = ing.measurement_unit}
    IN Annotate(Tail(rows),
         IF hit = {}
           THEN Append(groups, [line |-> "ingredient", ingredient |-> ing.name,
                                measure |-> ing.measurement_unit,
                                amount |-> row.amount])
           ELSE LET k == CHOOSE k \in hit : TRUE
                IN [groups EXCEPT ![k].amount = @ + row.amount])

\* lines 195-206: what is written to the file, line by line
Render(user, now) ==
  <<[line |-> "header", first_name |-> user], [line |-> "time", now |-> now]>>
    \o Annotate(CartRows(user), <<>>)
    \o <<[line |-> "footer"]>>

\* user.carts.exists()
CartExists(user) == \E r \in Recipes : carts[user][r] > 0

\* the file after a writer that opened it at offset 0 flushes its text
Flush(file, text) ==
  [exists |-> TRUE,
   content |-> text \o SubSeq(file.content, Len(text) + 1, Len(file.content))]

\* one whole download with no other request running meanwhile
download_shopping_cart ==
  LET user == request.user
      path == FileName(user)
      text == Render(user, clock)
      written == Flush([exists |-> TRUE, content |-> <<>>], text)
  IN
  /\ request.view = "download"
  /\ response = NoResponse
  /\ IF ~CartExists(user)
       THEN /\ response' = [view |-> "download", status |-> HTTP_400_BAD_REQUEST]
            /\ UNCHANGED <<files, writers>>
       ELSE /\ files' = [files EXCEPT ![path] = written]
            /\ writers' = [writers EXCEPT ![path] = @ \cup {user}]
            /\ response' = [view |-> "download", status |-> 200,
                            filename |-> path, body |-> written.content]
  /\ UNCHANGED <<subscribe, favorites, carts, togglevars, request, ingredients,
                 amounts, clock, jobs>>

\* stored recipes with any ingredient amounts, a download request of a user
\* with any cart, every other user having every recipe in the cart
InitCart ==
  /\ InitToggles
  /\ subscribe = [u \in Users |-> EmptyRows(Users)]
  /\ favorites = [u \in Users |-> EmptyRows(Recipes)]
  /\ ingredients = ExportIngredients
  /\ amounts \in [Recipes -> [1..Len(ExportIngredients) -> Amounts]]
  /\ \E user \in Users, c \in SUBSET Recipes :
       /\ carts = [u \in Users |-> RowsOf(Recipes, IF u = user THEN c ELSE Recipes)]
       /\ request = [view |-> "download", user |-> user]
  /\ response = NoResponse
  /\ files = [path \in Paths |-> NoFile]
  /\ clock = 0
  /\ jobs = [p \in Procs |-> IdleJob]
  /\ writers = [path \in Paths |-> {}]

NextCart == download_shopping_cart

SpecCart == InitCart /\ [][NextCart]_vars

(* ----------- download_shopping_cart of concurrent requests ------------ *)
\* the amounts of the export runs: each recipe uses one ingredient
ExportAmounts ==
  [r \in Recipes |->
     [i \in 1..Len(ExportIngredients) |->
        IF i = ((r - 1) % Len(ExportIngredients)) + 1 THEN 5 ELSE 0]]

\* lines 183-195: the cart test, then open(filepath, 'w') empties the file;
\* workers are taken in order; overlap observes the downloads of the same
\* user that have the file open or written and unread meanwhile
ExportOpen(p, user) ==
  LET path == FileName(user)
      running == {q \in Procs \ {p} :
                    jobs[q].pc \in {"opened", "closed"} /\ jobs[q].user = user}
  IN
  /\ jobs[p].pc = "idle"
  /\ \A q \in Procs : q < p => jobs[q].pc # "idle"
  /\ IF ~CartExists(user)
       THEN /\ jobs' = [jobs EXCEPT ![p] = [IdleJob EXCEPT
                          !.pc = "done", !.user = user,
                          !.status = HTTP_400_BAD_REQUEST]]
            /\ UNCHANGED <<files, writers>>
       ELSE /\ jobs' = [q \in Procs |->
                          IF q = p
                            THEN [IdleJob EXCEPT !.pc = "opened", !.user = user,
                                                 !.overlap = running]
                          ELSE IF q \in running
                            THEN [jobs[q] EXCEPT !.overlap = @ \cup {p}]
                            ELSE jobs[q]]
            /\ files' = [files EXCEPT ![path] = [exists |-> TRUE, content |-> <<>>]]
            /\ writers' = [writers EXCEPT ![path] = @ \cup {user}]
  /\ UNCHANGED <<subscribe, favorites, carts, togglevars, viewvars, amounts, clock>>

\* lines 196-206: the text is rendered and reaches the file when the with
\* block closes it
ExportWrite(p) ==
  LET user == jobs[p].user
      path == FileName(user)
      text == Render(user, clock)
  IN
  /\ jobs[p].pc = "opened"
  /\ jobs' = [jobs EXCEPT ![p].pc = "closed", ![p].text = text]
  /\ files' = [files EXCEPT ![path] = Flush(@, text)]
  /\ UNCHANGED <<subscribe, favorites, carts, togglevars, viewvars, amounts, clock,
                 writers>>

\* lines 208-211: the file is read back into the response
ExportRead(p) ==
  /\ jobs[p].pc = "closed"
  /\ jobs' = [jobs EXCEPT ![p].pc = "done", ![p].status = 200,
                          ![p].body = files[FileName(jobs[p].user)].content]
  /\ UNCHANGED <<subscribe, favorites, carts, togglevars, viewvars, amounts, clock,
                 files, writers>>

\* time passes
Tick ==
  /\ clock < MaxTime
  /\ clock' = clock + 1
  /\ UNCHANGED <<subscribe, favorites, carts, togglevars, viewvars, amounts, files,
                 jobs, writers>>

\* every user's cart is empty or holds every recipe
InitExport ==
  /\ InitToggles
  /\ subscribe = [u \in Users |-> EmptyRows(Users)]
  /\ favorites = [u \in Users |-> EmptyRows(Recipes)]
  /\ \E full \in SUBSET Users :
       carts = [u \in Users |-> RowsOf(Recipes, IF u \in full THEN Recipes ELSE {})]
  /\ ingredients = ExportIngredients
  /\ amounts = ExportAmounts
  /\ request = NoRequest
  /\ response = NoResponse
  /\ files = [path \in Paths |-> NoFile]
  /\ clock = 0
  /\ jobs = [p \in Procs |-> IdleJob]
  /\ writers = [path \in Paths |-> {}]

NextExport ==
  \/ \E p \in Procs, user \in Users : ExportOpen(p, user)
  \/ \E p \in Procs : ExportWrite(p)
  \/ \E p \in Procs : ExportRead(p)
  \/ Tick

SpecExport == InitExport /\ [][NextExport]_vars

(* ============================== claims ================================ *)
SameKey(a, b) ==
  a.user = b.user /\ a.endpoint = b.endpoint /\ a.obj_id = b.obj_id

\* the relation each endpoint is documented to operate on
EndpointManager(endpoint) ==
  CASE endpoint = "subscribe" -> "subscribe"
    [] endpoint = "favorite" -> "favorites"
    [] endpoint = "shopping_cart" -> "carts"

MemberIn(snapshot, a) == snapshot[EndpointManager(a.endpoint)][a.user][a.obj_id] > 0

Targeted(a) == a.user \in Users /\ a.obj_id \in Queryset(a.endpoint)

\* C1: two consecutive add-toggles of an authenticated user on an existing
\* object that was not a member return 201 then 400; two consecutive
\* remove-toggles on a member return 204 then 400.
C1_TwiceInARow ==
  Len(log) = 2 /\ SameKey(log[1], log[2]) /\ Targeted(log[1]) =>
    /\ ( /\ log[1].method \in ADD_METHODS /\ log[2].method \in ADD_METHODS
         /\ ~MemberIn(log[1].before, log[1])
         => log[1].status = 201 /\ log[2].status = 400 )
    /\ ( /\ log[1].method \in DEL_METHODS /\ log[2].method \in DEL_METHODS
         /\ MemberIn(log[1].before, log[1])
         => log[1].status = 204 /\ log[2].status = 400 )

C1_Witness ==
  /\ Len(log) = 2 /\ SameKey(log[1], log[2]) /\ Targeted(log[1])
  /\ log[1].method \in DEL_METHODS /\ log[2].method \in DEL_METHODS
  /\ MemberIn(log[1].before, log[1])
  /\ log[1].status = 204 /\ log[2].status = 400

\* C2: a successful add of O followed by a successful remove of O by the
\* same user on the same relation leaves every relation of every user as it
\* was before the add.
C2_AddThenRemoveRestores ==
  /\ Len(log) = 2 /\ SameKey(log[1], log[2])
  /\ log[1].status = 201 /\ log[2].status = 204
  => Snapshot = log[1].before

C2_Witness ==
  /\ Len(log) = 2 /\ SameKey(log[1], log[2])
  /\ log[1].status = 201 /\ log[2].status = 204
  /\ \E u \in Users, o \in Users : log[1].before.subscribe[u][o] > 0

\* C3: an anonymous caller gets 401 whatever the id, relation and method;
\* an authenticated caller on an id absent from the base collection gets
\* 404; a toggle answered 401, 404 or 400 leaves every relation unchanged.
C3_Failures ==
  \A i \in 1..Len(log) :
    LET a == log[i]
        after == IF i < Len(log) THEN log[i + 1].before ELSE Snapshot
    IN
    /\ a.user = AnonymousUser => a.status = 401
    /\ a.user \in Users /\ a.obj_id \notin Queryset(a.endpoint) => a.status = 404
    /\ a.status \in {400, 401, 404} => after = a.before

C3_Witness ==
  /\ Len(log) = 2
  /\ log[1].user = AnonymousUser /\ log[1].obj_id \notin Queryset(log[1].endpoint)
  /\ log[1].method \in ADD_METHODS /\ log[1].status = 401
  /\ log[2].method \in DEL_METHODS /\ log[2].status = 401
  /\ \E u \in Users, o \in Recipes : carts[u][o] > 0

\* C4: a successful toggle of O by U through an endpoint changes only the
\* membership of O in U's relation of that endpoint (subscribe -> subscribe,
\* favorite -> favorites, shopping_cart -> carts) and nothing else.
C4_Frame ==
  \A i \in 1..Len(log) :
    LET a == log[i]
        after == IF i < Len(log) THEN log[i + 1].before ELSE Snapshot
    IN
    a.status \in {201, 204} =>
      /\ MemberIn(after, a) = (a.status = 201)
      /\ MemberIn(a.before, a) = (a.status = 204)
      /\ \A m \in {"subscribe", "favorites", "carts"}, u \in Users :
           \A o \in DOMAIN after[m][u] :
             <<m, u, o>> # <<EndpointManager(a.endpoint), a.user, a.obj_id>>
               => after[m][u][o] = a.before[m][u][o]

C4_Witness ==
  /\ Len(log) = 1
  /\ log[1].status = 201 /\ log[1].endpoint = "shopping_cart"
  /\ \E o \in Recipes \ {log[1].obj_id} : carts[log[1].user][o] > 0
  /\ \E o \in Recipes : favorites[log[1].user][o] > 0

\* C5: under any interleaving of toggle requests every relation holds each
\* object at most once, and an object is a member exactly when the last
\* successful toggle on that (user, relation, object) was an add.
C5_MembershipSet ==
  \A m \in {"subscribe", "favorites", "carts"}, u \in Users :
    \A o \in DOMAIN Snapshot[m][u] :
      /\ Snapshot[m][u][o] <= 1
      /\ (Snapshot[m][u][o] > 0) = (last[m][u][o] = "add")

C5_Witness ==
  \E p, q \in Procs :
    /\ p # q /\ procs[p].pc = "done" /\ procs[q].pc = "done"
    /\ q \in procs[p].overlap
    /\ procs[p].status = 201 /\ procs[q].status = 201
    /\ procs[p].user = procs[q].user /\ procs[p].endpoint = procs[q].endpoint
    /\ procs[p].obj_id = procs[q].obj_id

\* the recipes a list request is to return
ReferenceSet(req) ==
  LET Flag(value, members) ==
        IF value \in {"1", "true"} THEN members
        ELSE IF value \in {"0", "false"} THEN Recipes \ members
        ELSE Recipes
  IN
  {r \in Recipes :
     /\ req.tags # <<>> => \E i \in DOMAIN req.tags : req.tags[i] \in RecipeTags(r)
     /\ req.author # <<>> => RecipeAuthor(r) = req.author[1]
     /\ req.user # AnonymousUser =>
          /\ r \in Flag(req.is_in_shopping_cart,
                        {x \in Recipes : carts[req.user][x] > 0})
          /\ r \in Flag(req.is_favorited,
                        {x \in Recipes : favorites[req.user][x] > 0})}

\* C6: the recipe list equals the reference set, each recipe once: tags keep
\* the recipes with at least one of the slugs, author keeps that author's,
\* and for an authenticated caller only, a true cart/favorite value keeps
\* the members, a false one the non-members, any other value nothing.
C6_RecipeFilter ==
  response.view = "recipes" =>
    /\ Range(response.result) = ReferenceSet(request)
    /\ Len(response.result) = Cardinality(Range(response.result))
    /\ request.user = AnonymousUser =>
         response.result =
           recipe_get_queryset([request EXCEPT !.is_in_shopping_cart = NoParam,
                                               !.is_favorited = NoParam])

C6_Witness ==
  /\ response.view = "recipes"
  /\ request.user \in Users
  /\ Len(request.tags) = 2 /\ request.author # <<>>
  /\ request.is_in_shopping_cart = "1" /\ request.is_favorited = "false"
  /\ \E i \in DOMAIN response.result :
       RecipeTags(response.result[i]) = {"a", "b"}
  /\ \E r \in Recipes : favorites[request.user][r] > 0

\* C7: for a non-empty query the result lists the ingredients whose name
\* starts with the normalized query in their natural order, then those whose
\* name contains it without starting with it in their natural order; every
\* ingredient containing it appears exactly once and no other ingredient
\* appears; for an empty or absent query the result is the whole collection.
C7_SearchRanking ==
  response.view = "ingredients" =>
    LET res == response.result
        all == 1..Len(ingredients)
    IN
    IF ~request.has_name \/ request.name = <<>>
      THEN res = [i \in all |-> i]
      ELSE
        LET q == NormalizeName(request.name)
            Starts(i) == StartsWith(ingredients[i].name, q)
            Has(i) == Contains(ingredients[i].name, q)
        IN
        /\ q # <<>>
        /\ {res[k] : k \in DOMAIN res} = {i \in all : Has(i)}
        /\ \A k, l \in DOMAIN res : k # l => res[k] # res[l]
        /\ \A k, l \in DOMAIN res :
             k < l => /\ Starts(res[l]) => Starts(res[k])
                      /\ Starts(res[k]) = Starts(res[l]) => res[k] < res[l]

C7_Witness ==
  /\ response.view = "ingredients"
  /\ request.has_name /\ request.name # <<>>
  /\ request.name # NormalizeName(request.name)
  /\ Len(response.result) = 3
  /\ response.result[1] > response.result[3]
  /\ StartsWith(ingredients[response.result[1]].name, NormalizeName(request.name))
  /\ StartsWith(ingredients[response.result[2]].name, NormalizeName(request.name))
  /\ ~StartsWith(ingredients[response.result[3]].name, NormalizeName(request.name))

RECURSIVE SumAmounts(_)
SumAmounts(cells) ==
  IF cells = {} THEN 0
  ELSE LET c == CHOOSE c \in cells : TRUE
       IN amounts[c[1]][c[2]] + SumAmounts(cells \ {c})

\* C8: a download of a user with an empty cart answers 400 and writes no
\* file; otherwise the text has exactly one line per distinct (name, unit)
\* occurring in the recipes of the user's cart, carrying the sum of the
\* amounts of that pair over those recipes, and no other ingredient line.
C8_Aggregation ==
  response.view = "download" =>
    LET user == request.user
        cart == {r \in Recipes : carts[user][r] > 0}
        cells == {c \in cart \X (1..Len(ingredients)) : amounts[c[1]][c[2]] > 0}
        Pair(i) == <<ingredients[i].name, ingredients[i].measurement_unit>>
        pairs == {Pair(c[2]) : c \in cells}
    IN
    IF cart = {}
      THEN /\ response.status = 400
           /\ \A path \in Paths : ~files[path].exists
      ELSE
        LET IsIng(l) == l.line = "ingredient"
            lines == SelectSeq(response.body, IsIng)
        IN
        /\ response.status = 200
        /\ Len(lines) = Cardinality(pairs)
        /\ \A k \in DOMAIN lines : <<lines[k].ingredient, lines[k].measure>> \in pairs
        /\ \A pr \in pairs :
             \E k \in DOMAIN lines :
               /\ <<lines[k].ingredient, lines[k].measure>> = pr
               /\ lines[k].amount = SumAmounts({c \in cells : Pair(c[2]) = pr})

C8_Witness ==
  /\ response.view = "download" /\ response.status = 200
  /\ \E k \in DOMAIN response.body :
       /\ response.body[k].line = "ingredient"
       /\ response.body[k].amount = 8
       /\ response.body[k].measure = "g"
  /\ \E k \in DOMAIN response.body :
       /\ response.body[k].line = "ingredient"
       /\ response.body[k].measure = "kg"
  /\ \E u \in Users \ {request.user} : CartExists(u)

\* C9: a download writes its text to the file named after its user before
\* it reads the file back, so a download no other download of the same user
\* overlaps answers the text it rendered, whatever an earlier download left
\* in the file; downloads of different users never write the same path; two
\* overlapping downloads of one user can answer a body that is not the text
\* the request rendered (C9_Witness).
C9_SharedPath ==
  /\ \A u1, u2 \in Users :
       u1 # u2 => ~(\E path \in Paths : {u1, u2} \subseteq writers[path])
  /\ \A p \in Procs :
       /\ jobs[p].pc = "closed" /\ jobs[p].overlap = {}
            => files[FileName(jobs[p].user)].content = jobs[p].text
       /\ jobs[p].pc = "done" /\ jobs[p].status = 200 /\ jobs[p].overlap = {}
            => jobs[p].body = jobs[p].text

C9_Witness ==
  \E p, q \in Procs :
    /\ p # q /\ jobs[p].user = jobs[q].user
    /\ q \in jobs[p].overlap
    /\ jobs[p].pc = "done" /\ jobs[p].status = 200
    /\ jobs[q].pc = "done" /\ jobs[q].status = 200
    /\ jobs[p].body # jobs[p].text
    /\ jobs[p].body = jobs[q].text

\* C10: of two add-toggles by the same user for the same relation and the
\* same object that run concurrently, exactly one returns 201 and the other
\* 400 (and of two concurrent remove-toggles one returns 204, the other 400).
C10_OneWinner ==
  \A p, q \in Procs :
    /\ p # q /\ procs[p].pc = "done" /\ procs[q].pc = "done"
    /\ q \in procs[p].overlap
    /\ procs[p].user = procs[q].user /\ procs[p].endpoint = procs[q].endpoint
    /\ procs[p].obj_id = procs[q].obj_id /\ procs[p].method = procs[q].method
    => IF procs[p].method \in ADD_METHODS
         THEN {procs[p].status, procs[q].status} = {201, 400}
         ELSE {procs[p].status, procs[q].status} = {204, 400}

====
